---- MODULE Spec2Model ----
(***************************************************************************)
(* Model of crates/flycheck/src/lib.rs: the FlycheckHandle, the            *)
(* FlycheckActor event loop, the CargoHandle and the CargoActor reader.    *)
(***************************************************************************)
EXTENDS Integers, Sequences, FiniteSets, TLC

\* ------------------------------------------------------------------ bounds
\* restart-type requests (Restart, RestartVerus) a caller sends in one run
MaxRestarts == 2
\* Cancel requests a caller sends in one run
MaxCancels == 1
\* lines the checker processes of one run write (both streams together)
MaxLines == 1
\* the same, in the specification of the Output Reader
MaxOutLines == 2
\* restart-type requests, Cancel requests and lines in the specification
\* with a scheduled actor thread
MaxFairRestarts == 2
MaxFairCancels == 1
MaxFairLines == 1
\* RestartVerus requests in the specification of command synthesis
MaxSynthRestarts == 2
\* restart-type requests in the specification of the coalescing window
MaxTimedRestarts == 3
\* the lagging Output Reader specification: requests and lines written
MaxPipeRestarts == 1
MaxPipeCancels == 1
MaxPipeLines == 2

Pids == 1..MaxRestarts

\* ------------------------------------------------------------ data types
\* FlycheckConfig: only the variant decides behaviour of the actor loop.
Configs == {"CargoCommand", "CustomCommand"}

NoFile == <<>>

\* A path is a sequence of components and a component a sequence of tokens
\* (".rs" is one token), so that text replacement acts on what it matches.
CargoToml == << <<"Cargo", ".toml">> >>
SrcDir == << <<"src">> >>
SrcMainRs == << <<"src">>, <<"main", ".rs">> >>
SrcLibRs == << <<"src">>, <<"lib", ".rs">> >>

\* target files of RestartVerus
FilePkg == << <<"pkg">>, <<"src">>, <<"sub">>, <<"m", ".rs">> >>
FileStray == << <<"stray">>, <<"x", ".rs">> >>
VerusFiles == {FilePkg, FileStray}

\* more target files: the entry file of pkg, a file below a directory
\* whose name contains ".rs", a file of pkg outside its source directory
PkgDir == << <<"pkg">> >>
FileEntry == PkgDir \o SrcMainRs
FileDotted == << <<"pkg">>, <<"src">>, <<"gen", ".rs">>, <<"m", ".rs">> >>
FileTests == << <<"pkg">>, <<"tests">>, <<"t", ".rs">> >>

\* a second package, ws, with entry file src/lib.rs, and below its source
\* directory a directory with a manifest of its own and no entry file
WsDir == << <<"ws">> >>
InnerDir == << <<"ws">>, <<"src">>, <<"inner">> >>
FileInner == InnerDir \o << <<"n", ".rs">> >>
SynthFiles == VerusFiles \cup {FileEntry, FileDotted, FileTests, FileInner}

\* the files that exist on disk
FileSystem ==
    { << <<"pkg">> >> \o CargoToml, << <<"pkg">> >> \o SrcMainRs,
      FilePkg, FileStray, FileDotted, FileTests,
      WsDir \o CargoToml, WsDir \o SrcLibRs, InnerDir \o CargoToml, FileInner }

\* FlycheckConfig::CustomCommand.args
CustomArgs == << <<"--cfg-arg">> >>

\* the arguments check_command builds for FlycheckConfig::CargoCommand
\* with no optional setting
CargoArgs ==
    << <<"check">>, <<"--workspace">>, <<"--message-format=json">>,
       <<"--manifest-path">>, <<"Cargo", ".toml">> >>

\* StateChange
ReqRestart == [kind |-> "Restart", file |-> NoFile]
ReqCancel == [kind |-> "Cancel", file |-> NoFile]
ReqRestartVerus(f) == [kind |-> "RestartVerus", file |-> f]

StateChange == {ReqRestart, ReqCancel} \cup {ReqRestartVerus(f) : f \in SynthFiles}

\* One line of subprocess output, described by what deserialisation makes of
\* it: shape is the JSON shape of the line, "Text" is a line that is not a
\* JsonMessage; marker says the text contains "verification results::".
Line(shape, payload, fresh, marker) ==
    [shape |-> shape, payload |-> payload, fresh |-> fresh, marker |-> marker]

LineDiagCargo == Line("CompilerMessage", "d1", FALSE, FALSE)
LineDiagRustc == Line("Rustc", "d2", FALSE, FALSE)
LineArtifact == Line("CompilerArtifact", "crate_a", FALSE, FALSE)
LineFreshArtifact == Line("CompilerArtifact", "crate_b", TRUE, FALSE)
LineBuildFinished == Line("BuildFinished", "", FALSE, FALSE)
LineJunk == Line("Text", "junk", FALSE, FALSE)
LineVerusResult == Line("Text", "verification results:: 1 verified", FALSE, TRUE)

AllLines ==
    { LineDiagCargo, LineDiagRustc, LineArtifact, LineFreshArtifact,
      LineBuildFinished, LineJunk, LineVerusResult }

\* the lines a process writes in the lifecycle specification
ActorLines == { LineDiagCargo }

Streams == {"stdout", "stderr"}

ExitCodes == {0, 1}

\* CargoMessage
CargoMessage(type, payload) == [type |-> type, payload |-> payload]

\* io::Result<()> of CargoHandle::join
OkRes == [ok |-> TRUE, why |-> "ok", exit |-> 0, text |-> <<>>]
ErrRes(why, exit, text) == [ok |-> FALSE, why |-> why, exit |-> exit, text |-> text]

\* Message handed to the sender callback (Progress and AddDiagnostic)
Ev(type, arg) == [type |-> type, arg |-> arg, res |-> OkRes]
EvFinish(res) == [type |-> "DidFinish", arg |-> "", res |-> res]

\* ------------------------------------------------------------- variables
VARIABLES
    config,        \* FlycheckActor.config
    inbox,         \* the StateChange channel, requests sent and not yet taken
    handleDropped, \* the FlycheckHandle was dropped (sender disconnected)
    sendFailed,    \* a send of the handle returned Err (receiver gone)
    pc,            \* position of the actor thread
    pending,       \* the request whose handler is in its drain loop
    cargo_handle,  \* FlycheckActor.cargo_handle: 0 is None, else a process id
    procs,         \* per process: "unspawned", "running", "closed", "reaped"
    exit,          \* per process: exit status reported by wait
    cmd,           \* per process: the command it was spawned with
    reader,        \* per process: locals and result of CargoActor::run
    chan,          \* per process: CargoMessage channel, sent and not received
    events,        \* every Message passed to the sender callback, in order
    written,       \* history: lines the reader was given, in callback order
    delivered,     \* history: CargoMessages the actor received, per process
    retiredBy,     \* history: "cancel"/"join" calls made on each handle
    batch,         \* history: requests taken since the last next_event, the
                   \* receive that took the first, what was ready then,
                   \* whether a subprocess event went before a queued request,
                   \* whether 50 ms have passed since the drain began and
                   \* how many requests the drain received after that, how
                   \* many queued messages the cancel of the arm discarded,
                   \* the requests of the batch before and the number of
                   \* spawn calls when it began
    spawnAttempts, \* history: number of CargoHandle::spawn calls
    budget         \* numbers of requests the caller will still send and of
                   \* lines the checker processes will still write

vars ==
    << config, inbox, handleDropped, sendFailed, pc, pending, cargo_handle,
       procs, exit, cmd, reader, chan, events, written, delivered, retiredBy,
       batch, spawnAttempts, budget >>

clientVars == << inbox, handleDropped, sendFailed, budget >>
procVars == << procs, exit, cmd, reader, chan, written >>
histVars == << delivered, retiredBy, batch, spawnAttempts >>

NoCmd == [kind |-> "none", file |-> NoFile, args |-> << >>]

ReaderInit ==
    [ stdout_errors |-> <<>>, stderr_errors |-> <<>>,
      read_at_least_one_stdout_message |-> FALSE,
      read_at_least_one_stderr_message |-> FALSE,
      output |-> "reading",
      unread |-> <<>>, send_failed |-> FALSE ]

NoBatch ==
    [ taken |-> <<>>, via |-> "none", first |-> 1, wasRunning |-> FALSE,
      checkReady |-> FALSE, attempts |-> 0, overtook |-> FALSE,
      afterCheck |-> FALSE, elapsed |-> FALSE, late |-> 0, dropped |-> 0,
      prev |-> <<>>, prevAttempts |-> 0, unsent |-> 0 ]

InitActor ==
    /\ config \in Configs
    /\ inbox = <<>>
    /\ handleDropped = FALSE
    /\ sendFailed = FALSE
    /\ pc = "next_event"
    /\ pending = ReqCancel
    /\ cargo_handle = 0
    /\ procs = [p \in Pids |-> "unspawned"]
    /\ exit = [p \in Pids |-> 0]
    /\ cmd = [p \in Pids |-> NoCmd]
    /\ reader = [p \in Pids |-> ReaderInit]
    /\ chan = [p \in Pids |-> <<>>]
    /\ events = <<>>
    /\ written = [p \in Pids |-> <<>>]
    /\ delivered = [p \in Pids |-> <<>>]
    /\ retiredBy = [p \in Pids |-> <<>>]
    /\ batch = NoBatch
    /\ spawnAttempts = 0

Init ==
    /\ InitActor
    /\ budget = [restarts |-> MaxRestarts, cancels |-> MaxCancels, lines |-> MaxLines]

\* the caller of the Output Reader specification: one restart, no cancel
OutputInit ==
    /\ InitActor
    /\ budget = [restarts |-> 1, cancels |-> 0, lines |-> MaxOutLines]

\* the caller of the specification with a scheduled actor thread, for the
\* standard check of a CargoCommand configuration
FairInit ==
    /\ InitActor
    /\ config = "CargoCommand"
    /\ budget = [restarts |-> MaxFairRestarts, cancels |-> MaxFairCancels,
                 lines |-> MaxFairLines]

\* the caller of the coalescing window specification: restart requests
\* and one Cancel, for processes that write nothing
TimedInit ==
    /\ InitActor
    /\ budget = [restarts |-> MaxTimedRestarts, cancels |-> MaxCancels, lines |-> 0]

\* the caller of the lagging Output Reader specification: a standard
\* check, restarted and cancelled, whose process writes ahead of the reader
PipeInit ==
    /\ InitActor
    /\ config = "CargoCommand"
    /\ budget = [restarts |-> MaxPipeRestarts, cancels |-> MaxPipeCancels,
                 lines |-> MaxPipeLines]

\* the caller of the command synthesis specification: RestartVerus
\* requests only, for processes that write nothing
SynthInit ==
    /\ InitActor
    /\ budget = [restarts |-> MaxSynthRestarts, cancels |-> 0, lines |-> 0]

\* --------------------------------------------------- command synthesis
\* Path::ancestors: the path itself, then each parent, ending with the
\* empty path
Ancestors(path) == [i \in 1..(Len(path) + 1) |-> SubSeq(path, 1, Len(path) + 1 - i)]

PathExists(path) == path \in FileSystem

IsPrefix(a, b) == Len(a) <= Len(b) /\ SubSeq(b, 1, Len(a)) = a

\* the ancestor test of run_verus that ends the walk: a manifest and an
\* entry file in the same directory
HasManifest(ans) == PathExists(ans \o CargoToml)
HasEntry(ans) == PathExists(ans \o SrcMainRs) \/ PathExists(ans \o SrcLibRs)

\* index into Ancestors(file) of the directory the walk breaks at, 0 if the
\* walk ends without a break
WalkEnd(file) ==
    LET anc == Ancestors(file)
        hits == { i \in DOMAIN anc : HasManifest(anc[i]) /\ HasEntry(anc[i]) }
    IN  IF hits = {} THEN 0 ELSE CHOOSE i \in hits : \A j \in hits : i <= j

\* run_verus panics: the CargoCommand arm, root.unwrap() on None, and
\* strip_prefix(ans/src).unwrap() for a file outside the source directory
run_verus_panics(cfg, file) ==
    IF cfg = "CargoCommand" THEN TRUE
    ELSE IF WalkEnd(file) = 0 THEN TRUE
    ELSE ~IsPrefix(Ancestors(file)[WalkEnd(file)] \o SrcDir, file)

\* Path::to_str: the components with "/" between them
RECURSIVE JoinPath(_)
JoinPath(path) ==
    IF path = << >> THEN << >>
    ELSE IF Len(path) = 1 THEN path[1]
    ELSE path[1] \o << "/" >> \o JoinPath(Tail(path))

\* str::replace, for a pattern that is one token: every occurrence
RECURSIVE Replace(_, _, _)
Replace(str, from, to) ==
    IF str = << >> THEN << >>
    ELSE (IF Head(str) = from THEN to ELSE << Head(str) >>)
             \o Replace(Tail(str), from, to)

\* root: the entry file of the directory the walk ends at, main before lib
EntryFile(ans) ==
    IF PathExists(ans \o SrcMainRs) THEN ans \o SrcMainRs ELSE ans \o SrcLibRs

\* Path::strip_prefix(ans.join("src")), where it is Ok
StripSrc(file, ans) == SubSeq(file, Len(ans) + 2, Len(file))

\* file_as_module: strip_prefix, to_str, replace("/", "::"),
\* replace(".rs", "")
file_as_module(file, ans) ==
    Replace(Replace(JoinPath(StripSrc(file, ans)), "/", << "::" >>), ".rs", << >>)

\* the extra_args the text scan of the manifest in dir finds under
\* [package.metadata.verus.ide], split at spaces; empty if it finds none
TomlExtraArgs(dir) ==
    IF dir = PkgDir THEN << <<"--expand-errors">> >>
    ELSE IF dir = InnerDir THEN << <<"--inner-flag">> >>
    ELSE << >>

\* extra_args_from_toml after the walk: the last manifest walked that
\* sets extra_args decides
extra_args_from_toml(file) ==
    LET anc == Ancestors(file)
        set == { i \in 1..WalkEnd(file) :
                    HasManifest(anc[i]) /\ TomlExtraArgs(anc[i]) # << >> }
    IN  IF set = {} THEN << >>
        ELSE TomlExtraArgs(anc[CHOOSE i \in set : \A j \in set : j <= i])

\* the argument list run_verus hands to the Command (none if it panics)
VerusArgs(cfg, file) ==
    IF run_verus_panics(cfg, file) THEN << >>
    ELSE LET ans == Ancestors(file)[WalkEnd(file)]
             root == EntryFile(ans)
         IN  << JoinPath(root) >>
               \o (IF root = file THEN << >>
                   ELSE << << "--verify-module" >>, file_as_module(file, ans) >>)
               \o CustomArgs
               \o extra_args_from_toml(file)
               \o << << "--" >>, << "--error-format=json" >> >>

check_command ==
    [ kind |-> "check", file |-> NoFile,
      args |-> IF config = "CargoCommand" THEN CargoArgs ELSE CustomArgs ]
run_verus(file) ==
    [ kind |-> "verus", file |-> file, args |-> VerusArgs(config, file) ]

\* ------------------------------------------------------- Output Reader
\* JsonMessage::deserialize succeeds on the two structured shapes
Deserializes(line) == line.shape # "Text"

\* (mutant) process_line that forwards a line it could not decode
LineMessages_forwards_undecoded(line) ==
    IF line.shape = "CompilerArtifact"
    THEN IF line.fresh THEN << >>
         ELSE << CargoMessage("CompilerArtifact", line.payload) >>
    ELSE IF line.shape = "BuildFinished" THEN << >>
    ELSE IF line.marker THEN << CargoMessage("VerusResult", line.payload) >>
    ELSE << CargoMessage("Diagnostic", line.payload) >>

\* (mutant) process_line that forwards fresh artifacts too
LineMessages_forwards_fresh(line) ==
    IF Deserializes(line)
    THEN CASE line.shape = "CompilerArtifact" ->
                  << CargoMessage("CompilerArtifact", line.payload) >>
           [] line.shape = "CompilerMessage" ->
                  << CargoMessage("Diagnostic", line.payload) >>
           [] line.shape = "Rustc" ->
                  << CargoMessage("Diagnostic", line.payload) >>
           [] OTHER -> << >>
    ELSE IF line.marker
         THEN << CargoMessage("VerusResult", line.payload) >>
         ELSE << >>

\* process_line: the CargoMessages one line sends on the channel
LineMessages(line) ==
    IF Deserializes(line)
    THEN CASE line.shape = "CompilerArtifact" /\ ~line.fresh ->
                  << CargoMessage("CompilerArtifact", line.payload) >>
           [] line.shape = "CompilerMessage" ->
                  << CargoMessage("Diagnostic", line.payload) >>
           [] line.shape = "Rustc" ->
                  << CargoMessage("Diagnostic", line.payload) >>
           [] OTHER -> << >>
    ELSE IF line.marker
         THEN << CargoMessage("VerusResult", line.payload) >>
         ELSE << >>


\* (mutant) reader that takes a line with the verification marker as decoded
ReaderAfterLine_marker_counts(r, stream, line) ==
    IF Deserializes(line) \/ line.marker
    THEN IF stream = "stdout"
         THEN [r EXCEPT !.read_at_least_one_stdout_message = TRUE]
         ELSE [r EXCEPT !.read_at_least_one_stderr_message = TRUE]
    ELSE IF stream = "stdout"
         THEN [r EXCEPT !.stdout_errors = Append(@, line.payload)]
         ELSE [r EXCEPT !.stderr_errors = Append(@, line.payload)]

\* (mutant) reader that counts a line as decoded only when it forwards one
ReaderAfterLine_only_forwarded(r, stream, line) ==
    IF Deserializes(line) /\ LineMessages(line) # << >>
    THEN IF stream = "stdout"
         THEN [r EXCEPT !.read_at_least_one_stdout_message = TRUE]
         ELSE [r EXCEPT !.read_at_least_one_stderr_message = TRUE]
    ELSE IF stream = "stdout"
         THEN [r EXCEPT !.stdout_errors = Append(@, line.payload)]
         ELSE [r EXCEPT !.stderr_errors = Append(@, line.payload)]

\* process_line and the two callbacks: the reader's locals after one line
ReaderAfterLine(r, stream, line) ==
    IF Deserializes(line)
    THEN IF stream = "stdout"
         THEN [r EXCEPT !.read_at_least_one_stdout_message = TRUE]
         ELSE [r EXCEPT !.read_at_least_one_stderr_message = TRUE]
    ELSE IF stream = "stdout"
         THEN [r EXCEPT !.stdout_errors = Append(@, line.payload)]
         ELSE [r EXCEPT !.stderr_errors = Append(@, line.payload)]

\* the tail of CargoActor::run
read_at_least_one_message(r) ==
    r.read_at_least_one_stdout_message \/ r.read_at_least_one_stderr_message

ReaderError(r) == r.stdout_errors \o r.stderr_errors

\* (mutant) join that looks at the exit status only
JoinResult_exit_status_only(r, code) ==
    IF r.output = "err"
    THEN ErrRes("io", 0, ReaderError(r))
    ELSE IF code = 0
         THEN OkRes
         ELSE ErrRes("no valid metadata", code, ReaderError(r))

\* (mutant) join that applies the success rule to a reader that failed
JoinResult_ignores_read_error(r, code) ==
    IF read_at_least_one_message(r) \/ code = 0
    THEN OkRes
    ELSE ErrRes("no valid metadata", code, ReaderError(r))

\* CargoHandle::join: the io::Result it returns
JoinResult(r, code) ==
    IF r.output = "err"
    THEN ErrRes("io", 0, ReaderError(r))
    ELSE IF read_at_least_one_message(r) \/ code = 0
         THEN OkRes
         ELSE ErrRes("no valid metadata", code, ReaderError(r))

\* streaming_output hands one line of one stream to its callback
ReadLine(L, S) ==
    \E p \in Pids, s \in S, l \in L :
        /\ procs[p] = "running"
        /\ budget.lines > 0
        /\ budget' = [budget EXCEPT !.lines = @ - 1]
        /\ reader' = [reader EXCEPT ![p] = ReaderAfterLine(@, s, l)]
        /\ chan' = [chan EXCEPT ![p] = @ \o LineMessages(l)]
        /\ written' = [written EXCEPT ![p] = Append(@, [stream |-> s, line |-> l])]
        /\ UNCHANGED << config, inbox, handleDropped, sendFailed, pc, pending,
                        cargo_handle, procs, exit, cmd, events, histVars >>

\* the process writes a line that stays in the pipe (CargoActor.stdout,
\* CargoActor.stderr) until streaming_output reads it
WriteLine(L, S) ==
    \E p \in Pids, s \in S, l \in L :
        /\ procs[p] = "running"
        /\ budget.lines > 0
        /\ budget' = [budget EXCEPT !.lines = @ - 1]
        /\ reader' = [reader EXCEPT ![p].unread = Append(@, [stream |-> s, line |-> l])]
        /\ UNCHANGED << config, inbox, handleDropped, sendFailed, pc, pending,
                        cargo_handle, procs, exit, cmd, chan, written, events,
                        histVars >>

\* q without its i-th element
RemoveAt(q, i) == SubSeq(q, 1, i - 1) \o SubSeq(q, i + 1, Len(q))

\* streaming_output hands the oldest unread line of a stream to its
\* callback; the two streams are read independently
ReadUnread ==
    \E p \in Pids :
        /\ procs[p] = "running"
        /\ \E i \in DOMAIN reader[p].unread :
              LET x == reader[p].unread[i]
              IN  /\ \A j \in 1..(i - 1) : reader[p].unread[j].stream # x.stream
                  /\ reader' = [reader EXCEPT ![p] =
                         [ReaderAfterLine(@, x.stream, x.line)
                            EXCEPT !.unread = RemoveAt(reader[p].unread, i)]]
                  /\ chan' = [chan EXCEPT ![p] = @ \o LineMessages(x.line)]
                  /\ written' = [written EXCEPT ![p] = Append(@, x)]
        /\ UNCHANGED << config, inbox, handleDropped, sendFailed, pc, pending,
                        cargo_handle, procs, exit, cmd, events, histVars, budget >>

\* the sends the reader has still to make for the lines it has not read
UnsentMessages(r) ==
    SelectSeq(r.unread, LAMBDA x : LineMessages(x.line) # << >>)

\* CargoActor::run from where it is to its return, once the process is
\* killed: streaming_output reads what is left in the pipes up to end of
\* input, process_line sends on a channel that has its Receiver
RECURSIVE RunToEnd(_)
RunToEnd(r) ==
    IF r.unread = << >>
    THEN [r EXCEPT !.output = IF @ = "reading" THEN "ok" ELSE @]
    ELSE RunToEnd([ReaderAfterLine(r, Head(r.unread).stream, Head(r.unread).line)
                      EXCEPT !.unread = Tail(r.unread)])

\* drop of stdx::thread::JoinHandle: the dropping thread waits until the
\* worker has returned (no detached work survives its handle)
JoinHandleDrop(r) == RunToEnd(r)

\* drop of the Receiver: a reader that has not returned and has a message
\* left to send finds the channel disconnected, and send(..).unwrap()
\* panics
ReceiverDrop(r) ==
    [r EXCEPT !.send_failed =
        @ \/ (r.output = "reading" /\ UnsentMessages(r) # << >>)]

\* what is left of the reader once its handle is gone
Released(r) == [ReaderInit EXCEPT !.send_failed = r.send_failed]

\* (mutant) a CargoHandle that declares receiver before thread
CargoHandleDrop_receiver_first(r) ==
    Released(JoinHandleDrop(ReceiverDrop(r)))

\* drop of a CargoHandle after kill and wait: its fields in the order of
\* declaration, child, thread, receiver
CargoHandleDrop(r) ==
    Released(ReceiverDrop(JoinHandleDrop(r)))

\* both streams reach end of input (or a read fails): CargoActor::run
\* returns and drops its Sender; the process ends with an exit status
StreamsClosed(codes, outs) ==
    \E p \in Pids, code \in codes, out \in outs :
        /\ procs[p] = "running"
        /\ reader[p].unread = << >>
        /\ procs' = [procs EXCEPT ![p] = "closed"]
        /\ exit' = [exit EXCEPT ![p] = code]
        /\ reader' = [reader EXCEPT ![p].output = out]
        /\ UNCHANGED << config, clientVars, pc, pending, cargo_handle, cmd,
                        chan, events, written, histVars >>

\* ------------------------------------------------------ Supervisor Handle
\* Sender::send of the handle; it fails once the actor's Receiver is gone
Send(req) ==
    /\ ~handleDropped
    /\ ~sendFailed
    /\ IF pc = "panicked"
       THEN sendFailed' = TRUE /\ inbox' = inbox
       ELSE sendFailed' = sendFailed /\ inbox' = Append(inbox, req)
    /\ budget' = IF req.kind = "Cancel"
                 THEN [budget EXCEPT !.cancels = @ - 1]
                 ELSE [budget EXCEPT !.restarts = @ - 1]
    /\ UNCHANGED << config, handleDropped, pc, pending, cargo_handle, procVars,
                    events, histVars >>

restart == budget.restarts > 0 /\ Send(ReqRestart)

restart_verus(F) ==
    /\ budget.restarts > 0
    /\ \E f \in F : Send(ReqRestartVerus(f))

cancel == budget.cancels > 0 /\ Send(ReqCancel)

\* dropping the FlycheckHandle: the Sender goes first
DropHandle ==
    /\ ~handleDropped
    /\ handleDropped' = TRUE
    /\ UNCHANGED << config, inbox, sendFailed, budget, pc, pending, cargo_handle,
                    procVars, events, histVars >>

\* ----------------------------------------------------------- Check Actor
\* what cancel_check_process may change; the histories of a cancelled
\* process are dropped with its handle
cancelVars ==
    << procs, exit, cmd, reader, chan, written, delivered, retiredBy, events,
       cargo_handle >>

\* CargoHandle::cancel: kill, wait; the handle, its reader's result and its
\* channel are released
Cancelled(f, p, idle) == [f EXCEPT ![p] = idle]

\* (mutant) cancel_check_process that does nothing
cancel_check_process_skipped ==
    UNCHANGED cancelVars

\* (mutant) cancel_check_process that reads the handle without taking it
cancel_check_process_keeps_handle ==
    IF cargo_handle # 0
    THEN /\ procs' = Cancelled(procs, cargo_handle, "reaped")
         /\ exit' = Cancelled(exit, cargo_handle, 0)
         /\ cmd' = Cancelled(cmd, cargo_handle, NoCmd)
         /\ reader' = Cancelled(reader, cargo_handle, ReaderInit)
         /\ chan' = Cancelled(chan, cargo_handle, << >>)
         /\ written' = Cancelled(written, cargo_handle, << >>)
         /\ delivered' = Cancelled(delivered, cargo_handle, << >>)
         /\ retiredBy' = [retiredBy EXCEPT ![cargo_handle] = Append(@, "cancel")]
         /\ events' = Append(events, Ev("DidCancel", ""))
         /\ cargo_handle' = cargo_handle
    ELSE UNCHANGED cancelVars

\* (mutant) cancel_check_process that reports DidCancel unconditionally
cancel_check_process_always_reports ==
    /\ events' = Append(events, Ev("DidCancel", ""))
    /\ IF cargo_handle # 0
       THEN /\ procs' = Cancelled(procs, cargo_handle, "reaped")
            /\ exit' = Cancelled(exit, cargo_handle, 0)
            /\ cmd' = Cancelled(cmd, cargo_handle, NoCmd)
            /\ reader' = Cancelled(reader, cargo_handle, ReaderInit)
            /\ chan' = Cancelled(chan, cargo_handle, << >>)
            /\ written' = Cancelled(written, cargo_handle, << >>)
            /\ delivered' = Cancelled(delivered, cargo_handle, << >>)
            /\ retiredBy' = [retiredBy EXCEPT ![cargo_handle] = Append(@, "cancel")]
            /\ cargo_handle' = 0
       ELSE UNCHANGED << procs, exit, cmd, reader, chan, written, delivered,
                         retiredBy, cargo_handle >>

\* (mutant) cancel_check_process that leaves the messages queued on the
\* channel of the cancelled process
cancel_check_process_keeps_queue ==
    IF cargo_handle # 0
    THEN /\ procs' = Cancelled(procs, cargo_handle, "reaped")
         /\ exit' = Cancelled(exit, cargo_handle, 0)
         /\ cmd' = Cancelled(cmd, cargo_handle, NoCmd)
         /\ reader' = Cancelled(reader, cargo_handle, ReaderInit)
         /\ chan' = chan
         /\ written' = Cancelled(written, cargo_handle, << >>)
         /\ delivered' = Cancelled(delivered, cargo_handle, << >>)
         /\ retiredBy' = [retiredBy EXCEPT ![cargo_handle] = Append(@, "cancel")]
         /\ events' = Append(events, Ev("DidCancel", ""))
         /\ cargo_handle' = 0
    ELSE UNCHANGED cancelVars

\* (mutant) cancel_check_process that does not report DidCancel
cancel_check_process_unreported ==
    IF cargo_handle # 0
    THEN /\ procs' = Cancelled(procs, cargo_handle, "reaped")
         /\ exit' = Cancelled(exit, cargo_handle, 0)
         /\ cmd' = Cancelled(cmd, cargo_handle, NoCmd)
         /\ reader' = Cancelled(reader, cargo_handle, ReaderInit)
         /\ chan' = Cancelled(chan, cargo_handle, << >>)
         /\ written' = Cancelled(written, cargo_handle, << >>)
         /\ delivered' = Cancelled(delivered, cargo_handle, << >>)
         /\ retiredBy' = [retiredBy EXCEPT ![cargo_handle] = Append(@, "cancel")]
         /\ events' = events
         /\ cargo_handle' = 0
    ELSE UNCHANGED cancelVars

\* FlycheckActor::cancel_check_process: take the handle, CargoHandle::cancel,
\* report DidCancel
cancel_check_process ==
    IF cargo_handle # 0
    THEN /\ procs' = Cancelled(procs, cargo_handle, "reaped")
         /\ exit' = Cancelled(exit, cargo_handle, 0)
         /\ cmd' = Cancelled(cmd, cargo_handle, NoCmd)
         /\ reader' = Cancelled(reader, cargo_handle,
                               CargoHandleDrop(reader[cargo_handle]))
         /\ chan' = Cancelled(chan, cargo_handle, << >>)
         /\ written' = Cancelled(written, cargo_handle, << >>)
         /\ delivered' = Cancelled(delivered, cargo_handle, << >>)
         /\ retiredBy' = [retiredBy EXCEPT ![cargo_handle] = Append(@, "cancel")]
         /\ events' = Append(events, Ev("DidCancel", ""))
         /\ cargo_handle' = 0
    ELSE UNCHANGED cancelVars

\* a subprocess event is ready on the check channel
CheckEventReady ==
    /\ cargo_handle # 0
    /\ (chan[cargo_handle] # << >> \/ reader[cargo_handle].output # "reading")

\* the match arm of run for a request, up to its first blocking receive
HandleStateChange(req, via) ==
    /\ cancel_check_process
    /\ pc' = IF req.kind = "Cancel" THEN "next_event" ELSE "drain"
    /\ pending' = IF req.kind = "Cancel" THEN ReqCancel ELSE req
    /\ batch' = [ taken |-> << req >>, via |-> via, first |-> Len(events) + 1,
                  wasRunning |-> cargo_handle # 0,
                  checkReady |-> CheckEventReady, attempts |-> spawnAttempts,
                  overtook |-> FALSE, afterCheck |-> batch.overtook,
                  elapsed |-> FALSE, late |-> 0,
                  dropped |-> IF cargo_handle # 0
                              THEN Len(chan[cargo_handle]) ELSE 0,
                  prev |-> batch.taken, prevAttempts |-> batch.attempts,
                  unsent |-> IF cargo_handle # 0
                             THEN Len(UnsentMessages(reader[cargo_handle]))
                             ELSE 0 ]
    /\ UNCHANGED << config, spawnAttempts >>

\* (mutant) next_event without the poll
try_recv_never(q) == FALSE

\* (mutant) a poll that lets ready subprocess output go first
try_recv_unless_output(q) == q # << >> /\ ~CheckEventReady

\* `if let Ok(msg) = inbox.try_recv()` of next_event
try_recv_ok(q) == q # << >>

\* next_event, the non-blocking poll of the inbox
TryRecv ==
    /\ pc = "next_event"
    /\ IF try_recv_ok(inbox)
       THEN /\ inbox' = Tail(inbox)
            /\ HandleStateChange(Head(inbox), "try_recv")
       ELSE /\ pc' = "select"
            /\ UNCHANGED << config, inbox, pending, cargo_handle, procVars,
                            events, histVars >>
    /\ UNCHANGED << handleDropped, sendFailed, budget >>

\* next_event, select!: the inbox arm with a request
SelectRequest ==
    /\ pc = "select"
    /\ inbox # << >>
    /\ inbox' = Tail(inbox)
    /\ HandleStateChange(Head(inbox), "select")
    /\ UNCHANGED << handleDropped, sendFailed, budget >>

\* (mutant) a run that returns at the end of its loop without the final
\* cancel_check_process
SelectDisconnected_without_cancel ==
    /\ pc = "select"
    /\ inbox = << >>
    /\ handleDropped
    /\ pc' = "done"
    /\ UNCHANGED << config, clientVars, pending, procVars, events, cargo_handle,
                    histVars >>

\* next_event, select!: the inbox arm on a disconnected channel returns
\* None, the loop of run ends and run cancels the check process
SelectDisconnected ==
    /\ pc = "select"
    /\ inbox = << >>
    /\ handleDropped
    /\ cancel_check_process
    /\ pc' = "done"
    /\ UNCHANGED << config, clientVars, pending, batch, spawnAttempts >>

\* the Message the actor emits for a CargoMessage
MessageEvent(msg) ==
    CASE msg.type = "CompilerArtifact" -> Ev("DidCheckCrate", msg.payload)
      [] msg.type = "Diagnostic" -> Ev("AddDiagnostic", msg.payload)
      [] msg.type = "VerusResult" -> Ev("VerusResult", msg.payload)

\* next_event, select!: the check channel arm with a message, and the
\* CheckEvent(Some(message)) arm of run
SelectCheckMessage ==
    /\ pc = "select"
    /\ cargo_handle # 0
    /\ chan[cargo_handle] # << >>
    /\ chan' = [chan EXCEPT ![cargo_handle] = Tail(@)]
    /\ delivered' = [delivered EXCEPT ![cargo_handle] = Append(@, Head(chan[cargo_handle]))]
    /\ events' = Append(events, MessageEvent(Head(chan[cargo_handle])))
    /\ batch' = [NoBatch EXCEPT !.first = Len(events) + 1,
                                !.attempts = spawnAttempts,
                                !.overtook = inbox # << >>]
    /\ pc' = "next_event"
    /\ UNCHANGED << config, clientVars, pending, cargo_handle, procs, exit, cmd,
                    reader, written, retiredBy, spawnAttempts >>

\* (mutant) a receive that reports disconnection before the queue is empty
check_chan_disconnected_early(q, r) == r.output # "reading"

\* `msg.ok()` is None: the Sender is dropped (CargoActor::run returned)
\* and every message sent has been received
check_chan_disconnected(q, r) == q = << >> /\ r.output # "reading"

\* (mutant) a CheckEvent(None) arm that joins the handle without taking
\* it out of cargo_handle
SelectCheckClosed_keeps_handle ==
    /\ pc = "select"
    /\ cargo_handle # 0
    /\ check_chan_disconnected(chan[cargo_handle], reader[cargo_handle])
    /\ procs' = [procs EXCEPT ![cargo_handle] = "reaped"]
    /\ reader' = reader
    /\ retiredBy' = [retiredBy EXCEPT ![cargo_handle] = Append(@, "join")]
    /\ events' = Append(events,
                        EvFinish(JoinResult(reader[cargo_handle], exit[cargo_handle])))
    /\ cargo_handle' = cargo_handle
    /\ batch' = [NoBatch EXCEPT !.first = Len(events) + 1,
                                !.attempts = spawnAttempts,
                                !.overtook = inbox # << >>]
    /\ pc' = "next_event"
    /\ chan' = [chan EXCEPT ![cargo_handle] = << >>]
    /\ UNCHANGED << config, clientVars, pending, exit, cmd, written,
                    delivered, spawnAttempts >>

\* next_event, select!: the check channel arm on a disconnected, empty
\* channel, and the CheckEvent(None) arm of run (take, join, DidFinish)
SelectCheckClosed ==
    /\ pc = "select"
    /\ cargo_handle # 0
    /\ check_chan_disconnected(chan[cargo_handle], reader[cargo_handle])
    /\ procs' = [procs EXCEPT ![cargo_handle] = "reaped"]
    /\ reader' = reader
    /\ retiredBy' = [retiredBy EXCEPT ![cargo_handle] = Append(@, "join")]
    /\ events' = Append(events,
                        EvFinish(JoinResult(reader[cargo_handle], exit[cargo_handle])))
    /\ cargo_handle' = 0
    /\ batch' = [NoBatch EXCEPT !.first = Len(events) + 1,
                                !.attempts = spawnAttempts,
                                !.overtook = inbox # << >>]
    /\ pc' = "next_event"
    /\ chan' = [chan EXCEPT ![cargo_handle] = << >>]
    /\ UNCHANGED << config, clientVars, pending, exit, cmd, written,
                    delivered, spawnAttempts >>

\* (mutant) a drain that gives up although a request is queued
recv_timeout_err_always(q) == TRUE

\* (mutant) a drain with one deadline, 50 ms after it began
recv_timeout_err_after_window(q) == q = << >> \/ batch.elapsed

\* `inbox.recv_timeout(50ms)` of the drain loop returns Err (timeout or
\* disconnected) only when no request is queued
recv_timeout_err(q) == q = << >>

\* (mutant) a drain that swallows Cancel like any other request
drain_aborts_never(req) == FALSE

\* (mutant) a drain that a Cancel aborts only when nothing is queued
\* behind it
drain_aborts_on_last(req) == req.kind = "Cancel" /\ Len(inbox) = 1

\* `if let StateChange::Cancel = restart { continue 'event }`
drain_aborts(req) == req.kind = "Cancel"

\* one iteration of the drain loop of the Restart and RestartVerus arms
DrainRecv ==
    /\ pc = "drain"
    /\ ~recv_timeout_err(inbox)
    /\ inbox' = Tail(inbox)
    /\ batch' = [batch EXCEPT !.taken = Append(@, Head(inbox)),
                              !.late = @ + (IF batch.elapsed THEN 1 ELSE 0)]
    /\ IF drain_aborts(Head(inbox))
       THEN pc' = "next_event" /\ pending' = ReqCancel
       ELSE pc' = "drain" /\ pending' = pending
    /\ UNCHANGED << config, handleDropped, sendFailed, budget, cargo_handle,
                    procVars, events, delivered, retiredBy, spawnAttempts >>

\* the clock: 50 ms have passed since the drain began, while the actor
\* waits in a recv_timeout(50 ms) call that it made later, after a request
\* it received in the drain
WindowElapses ==
    /\ pc = "drain"
    /\ inbox = << >>
    /\ Len(batch.taken) >= 2
    /\ ~batch.elapsed
    /\ batch' = [batch EXCEPT !.elapsed = TRUE]
    /\ UNCHANGED << config, clientVars, pc, pending, cargo_handle, procVars,
                    events, delivered, retiredBy, spawnAttempts >>

\* the command the pending request's arm synthesises
PendingCommand ==
    IF pending.kind = "Restart" THEN check_command ELSE run_verus(pending.file)

NewPid == CHOOSE p \in Pids : procs[p] = "unspawned" /\ \A q \in 1..(p - 1) : procs[q] # "unspawned"

\* (mutant) an Ok arm that reports DidStart before the announcement
SpawnOkEvents_started_first ==
    IF pending.kind = "Restart"
    THEN << Ev("DidStart", "") >>
    ELSE << Ev("DidStart", ""),
            Ev("VerusResult", "Started running the following Verus command") >>

\* the Ok arm after CargoHandle::spawn
SpawnOkEvents ==
    IF pending.kind = "Restart"
    THEN << Ev("DidStart", "") >>
    ELSE << Ev("VerusResult", "Started running the following Verus command"),
            Ev("DidStart", "") >>

\* (mutant) an Err arm that reports DidStart as well
SpawnErrEvents_also_started ==
    IF pending.kind = "Restart"
    THEN << Ev("DidFailToRestart", "Failed to run the following command"),
            Ev("DidStart", "") >>
    ELSE << Ev("VerusResult", "Failed to run the following Verus command"),
            Ev("DidStart", "") >>

\* the Err arm after CargoHandle::spawn
SpawnErrEvents ==
    IF pending.kind = "Restart"
    THEN << Ev("DidFailToRestart", "Failed to run the following command") >>
    ELSE << Ev("VerusResult", "Failed to run the following Verus command") >>

\* the drain loop ends, the command is synthesised and spawned
DrainEnds ==
    /\ pc = "drain"
    /\ recv_timeout_err(inbox)
    /\ pending.kind = "RestartVerus" => ~run_verus_panics(config, pending.file)

SpawnOk ==
    /\ DrainEnds
    /\ \E p \in Pids : procs[p] = "unspawned"
    /\ procs' = [procs EXCEPT ![NewPid] = "running"]
    /\ cmd' = [cmd EXCEPT ![NewPid] = PendingCommand]
    /\ cargo_handle' = NewPid
    /\ events' = events \o SpawnOkEvents
    /\ spawnAttempts' = spawnAttempts + 1
    /\ pc' = "next_event"
    /\ pending' = ReqCancel
    /\ UNCHANGED << config, clientVars, exit, reader, chan, written, delivered,
                    retiredBy, batch >>

SpawnErr ==
    /\ DrainEnds
    /\ events' = events \o SpawnErrEvents
    /\ spawnAttempts' = spawnAttempts + 1
    /\ pc' = "next_event"
    /\ pending' = ReqCancel
    /\ UNCHANGED << config, clientVars, cargo_handle, procVars, delivered,
                    retiredBy, batch >>

\* run_verus panics: the actor thread unwinds and its Receiver is dropped
RunVerusPanic ==
    /\ pc = "drain"
    /\ recv_timeout_err(inbox)
    /\ pending.kind = "RestartVerus"
    /\ run_verus_panics(config, pending.file)
    /\ pc' = "panicked"
    /\ pending' = ReqCancel
    /\ inbox' = << >>
    /\ UNCHANGED << config, handleDropped, sendFailed, budget, cargo_handle,
                    procVars, events, histVars >>

\* ---------------------------------------------------------- specification
\* The lifecycle specification: any caller (restarts, cancels, drop) and
\* checker processes that write diagnostics on standard output and fail.
Next ==
    \/ restart
    \/ restart_verus({FilePkg})
    \/ cancel
    \/ DropHandle
    \/ TryRecv
    \/ SelectRequest
    \/ SelectDisconnected
    \/ SelectCheckMessage
    \/ SelectCheckClosed
    \/ DrainRecv
    \/ SpawnOk
    \/ SpawnErr
    \/ RunVerusPanic
    \/ ReadLine(ActorLines, {"stdout"})
    \/ StreamsClosed({1}, {"ok"})

Spec == Init /\ [][Next]_vars

\* the steps of the actor thread (FlycheckActor::run)
ActorStep ==
    \/ TryRecv
    \/ SelectRequest
    \/ SelectDisconnected
    \/ SelectCheckMessage
    \/ SelectCheckClosed
    \/ DrainRecv
    \/ SpawnOk
    \/ SpawnErr
    \/ RunVerusPanic

\* the lifecycle of standard checks (Restart, Cancel, drop)
FairNext ==
    \/ restart
    \/ cancel
    \/ DropHandle
    \/ TryRecv
    \/ SelectRequest
    \/ SelectDisconnected
    \/ SelectCheckMessage
    \/ SelectCheckClosed
    \/ DrainRecv
    \/ SpawnOk
    \/ SpawnErr
    \/ ReadLine(ActorLines, {"stdout"})
    \/ StreamsClosed({1}, {"ok"})

\* the lifecycle specification with a scheduled actor thread: a receive
\* that can return does return, recv_timeout returns within its timeout,
\* CargoHandle::spawn returns. Nothing is assumed of the caller or of the
\* checker processes.
FairSpec == FairInit /\ [][FairNext]_vars /\ WF_vars(ActorStep)

\* the Output Reader specification: one check process, every kind of line
\* on both streams
OutputNext ==
    \/ restart
    \/ restart_verus(VerusFiles)
    \/ TryRecv
    \/ SelectRequest
    \/ SelectCheckMessage
    \/ SelectCheckClosed
    \/ SpawnOk
    \/ SpawnErr
    \/ RunVerusPanic
    \/ ReadLine(AllLines, Streams)
    \/ StreamsClosed(ExitCodes, {"ok", "err"})

OutputSpec == OutputInit /\ [][OutputNext]_vars

\* the coalescing window specification: the lifecycle with the clock of
\* the drain, for processes that end without output
TimedNext ==
    \/ restart
    \/ restart_verus({FilePkg})
    \/ cancel
    \/ TryRecv
    \/ SelectRequest
    \/ SelectCheckClosed
    \/ DrainRecv
    \/ WindowElapses
    \/ SpawnOk
    \/ SpawnErr
    \/ RunVerusPanic
    \/ StreamsClosed({0}, {"ok"})

TimedSpec == TimedInit /\ [][TimedNext]_vars

\* the lines a process writes in the lagging Output Reader specification
PipeLines == { LineDiagCargo, LineJunk }

\* the lagging Output Reader specification: the lifecycle of standard
\* checks with a process that writes ahead of its reader
PipeNext ==
    \/ restart
    \/ cancel
    \/ DropHandle
    \/ TryRecv
    \/ SelectRequest
    \/ SelectDisconnected
    \/ SelectCheckMessage
    \/ SelectCheckClosed
    \/ DrainRecv
    \/ SpawnOk
    \/ WriteLine(PipeLines, Streams)
    \/ ReadUnread
    \/ StreamsClosed({1}, {"ok"})

PipeSpec == PipeInit /\ [][PipeNext]_vars

\* the command synthesis specification: RestartVerus for every kind of
\* target file, processes that end without output
SynthNext ==
    \/ restart_verus(SynthFiles)
    \/ TryRecv
    \/ SelectRequest
    \/ SelectCheckClosed
    \/ DrainRecv
    \/ SpawnOk
    \/ SpawnErr
    \/ RunVerusPanic
    \/ StreamsClosed({0}, {"ok"})

SynthSpec == SynthInit /\ [][SynthNext]_vars

TypeOK ==
    /\ pc \in {"next_event", "select", "drain", "done", "panicked"}
    /\ cargo_handle \in {0} \cup Pids

\* ------------------------------------------------------------- properties
\* processes whose ProcessHandle exists: spawned, not yet killed and waited
LiveHandles == { p \in Pids : procs[p] \in {"running", "closed"} }

Last(q) == q[Len(q)]

EventsOfType(T) == SelectSeq(events, LAMBDA e : e.type \in T)

\* events emitted since the actor took its current event
BatchEvents == SubSeq(events, batch.first, Len(events))

\* the handler of the current event has returned to the event loop
BatchDone == pc \in {"next_event", "select", "done"}

\* the command a request asks for
CommandFor(req) ==
    IF req.kind = "Restart" THEN check_command ELSE run_verus(req.file)

\* C1: at most one ProcessHandle is live at any time, and it is the one the
\* actor holds in cargo_handle: a process is spawned only after the previous
\* one was killed, waited for and discarded.
C1_AtMostOneLiveHandle ==
    /\ Cardinality(LiveHandles) <= 1
    /\ \A p \in LiveHandles : cargo_handle = p

\* a second process is live after the first one was retired
C1_Witness ==
    /\ procs[1] = "reaped"
    /\ procs[2] \in {"running", "closed"}
    /\ cargo_handle = 2

\* C2: a spawned ProcessHandle is retired at most once, by join (DidFinish)
\* or by cancel (DidCancel), never by both; once the actor has terminated
\* every spawned handle has been retired exactly once.
C2_RetiredExactlyOnce ==
    /\ \A p \in Pids : Len(retiredBy[p]) <= 1
    /\ \A p \in Pids : procs[p] = "reaped" <=> Len(retiredBy[p]) = 1
    /\ Len(EventsOfType({"DidCancel"}))
          = Cardinality({ p \in Pids : retiredBy[p] = << "cancel" >> })
    /\ Len(EventsOfType({"DidFinish"}))
          = Cardinality({ p \in Pids : retiredBy[p] = << "join" >> })
    /\ pc \in {"done", "panicked"} =>
          \A p \in Pids : procs[p] # "unspawned" => Len(retiredBy[p]) = 1

\* the actor has terminated after one process was joined and one cancelled
C2_Witness ==
    /\ pc = "done"
    /\ retiredBy[1] = << "join" >>
    /\ retiredBy[2] = << "cancel" >>

\* C3: no request is discarded in favour of an earlier one: the command
\* spawned at the end of a batch is the one the last request of the batch
\* asks for.
C3_LastRequestWins ==
    ( /\ BatchDone
      /\ batch.taken # << >>
      /\ spawnAttempts = batch.attempts + 1
      /\ cargo_handle # 0 )
    => cmd[cargo_handle] = CommandFor(Last(batch.taken))

\* C4: a burst of Restart requests taken within one coalescing window leads
\* to exactly one spawn and one DidStart or DidFailToRestart, and no spawn
\* happens while a request of the burst is still queued.
C4_OneSpawnPerBurst ==
    /\ []( ( /\ BatchDone
             /\ batch.taken # << >>
             /\ \A i \in DOMAIN batch.taken : batch.taken[i] = ReqRestart )
           => /\ spawnAttempts = batch.attempts + 1
              /\ Len(SelectSeq(BatchEvents,
                     LAMBDA e : e.type \in {"DidStart", "DidFailToRestart"})) = 1 )
    /\ [][ spawnAttempts' # spawnAttempts
             => /\ inbox = << >>
                /\ spawnAttempts' = batch.attempts + 1 ]_vars

\* two Restarts were coalesced into one spawned process
C4_Witness ==
    /\ BatchDone
    /\ batch.taken = << ReqRestart, ReqRestart >>
    /\ cargo_handle # 0
    /\ spawnAttempts = 1

\* C5: a Cancel met by the drain after a Restart or RestartVerus ends the
\* batch without a spawn and without DidStart; the batch emits DidCancel
\* once if a process was running when the restart was handled, else nothing.
C5_CancelDuringDrain ==
    ( /\ BatchDone
      /\ Len(batch.taken) >= 2
      /\ Last(batch.taken) = ReqCancel )
    => /\ cargo_handle = 0
       /\ spawnAttempts = batch.attempts
       /\ BatchEvents = IF batch.wasRunning
                        THEN << Ev("DidCancel", "") >>
                        ELSE << >>

\* a Restart handled while a process was running was aborted by a Cancel
C5_Witness ==
    /\ BatchDone
    /\ Len(batch.taken) >= 2
    /\ Head(batch.taken).kind \in {"Restart", "RestartVerus"}
    /\ Last(batch.taken) = ReqCancel
    /\ batch.wasRunning

\* C6: taking a Cancel while no ProcessHandle is held emits nothing and
\* changes neither the handle nor any process nor the number of spawns.
C6_CancelIdleIsNoop ==
    [][ ( /\ inbox # << >>
          /\ Head(inbox) = ReqCancel
          /\ inbox' = Tail(inbox)
          /\ cargo_handle = 0 )
        => /\ events' = events
           /\ cargo_handle' = 0
           /\ procs' = procs
           /\ retiredBy' = retiredBy
           /\ spawnAttempts' = spawnAttempts ]_vars

\* a Cancel was handled by an idle actor
C6_Witness ==
    /\ pc = "next_event"
    /\ batch.taken = << ReqCancel >>
    /\ ~batch.wasRunning
    /\ BatchEvents = << >>

\* lines of w that are well-formed diagnostics, as payloads, in order
WellFormedDiags(w) ==
    LET d == SelectSeq(w, LAMBDA x : x.line.shape \in {"CompilerMessage", "Rustc"})
    IN  [i \in DOMAIN d |-> d[i].line.payload]

\* payloads of the Diagnostic messages of q, in order
DiagPayloads(q) ==
    LET d == SelectSeq(q, LAMBDA m : m.type = "Diagnostic")
    IN  [i \in DOMAIN d |-> d[i].payload]

\* payloads of the AddDiagnostic events, in order
DiagnosticEvents ==
    LET d == EventsOfType({"AddDiagnostic"})
    IN  [i \in DOMAIN d |-> d[i].arg]

\* text of the lines of w on stream s that are not structured messages
RawText(w, s) ==
    LET d == SelectSeq(w, LAMBDA x : x.stream = s /\ x.line.shape = "Text")
    IN  [i \in DOMAIN d |-> d[i].line.payload]

NumDecoded(w) == Len(SelectSeq(w, LAMBDA x : x.line.shape # "Text"))

\* process p is joined in this step
Joins(p) == retiredBy'[p] = Append(retiredBy[p], "join")

\* C7: when a process whose streams closed without a read error is joined,
\* DidFinish carries success for exit status 0 with no decoded message,
\* success for a nonzero status with at least one decoded message, and for
\* a nonzero status with no decoded message a failure holding the status
\* and the raw text, standard output first.
C7_FinishedOutcome ==
    [][ \A p \in Pids :
          (Joins(p) /\ reader[p].output = "ok") =>
            LET e == Last(events')
                n == NumDecoded(written[p])
            IN  /\ Len(events') = Len(events) + 1
                /\ e.type = "DidFinish"
                /\ (exit[p] = 0 /\ n = 0) => e.res.ok
                /\ (exit[p] # 0 /\ n >= 1) => e.res.ok
                /\ (exit[p] # 0 /\ n = 0) =>
                      /\ ~e.res.ok
                      /\ e.res.exit = exit[p]
                      /\ e.res.text = RawText(written[p], "stdout")
                                         \o RawText(written[p], "stderr") ]_vars

\* a process that failed after writing one decodable line was reported as
\* finished successfully
C7_Witness ==
    \E p \in Pids :
        /\ retiredBy[p] = << "join" >>
        /\ reader[p].output = "ok"
        /\ exit[p] # 0
        /\ NumDecoded(written[p]) = 1
        /\ Len(written[p]) = 2
        /\ Len(EventsOfType({"DidFinish"})) = 1
        /\ EventsOfType({"DidFinish"})[1].res.ok

\* C8: while a process is read and after it is joined, the Diagnostic
\* messages received and in flight are exactly the well-formed diagnostic
\* lines read so far, in order: an undecodable line adds no diagnostic and
\* does not stop the lines after it from being processed.
C8_MalformedLinesTolerated ==
    \A p \in Pids :
        (p \in LiveHandles \/ retiredBy[p] = << "join" >>) =>
            /\ DiagPayloads(delivered[p] \o chan[p]) = WellFormedDiags(written[p])
            /\ Len(reader[p].stdout_errors) + Len(reader[p].stderr_errors)
                  = Len(written[p]) - NumDecoded(written[p])

\* an undecodable line was followed by a diagnostic that reached the caller
C8_Witness ==
    \E p \in Pids :
        /\ Len(written[p]) = 2
        /\ written[p][1].line = LineJunk
        /\ written[p][2].line = LineDiagCargo
        /\ DiagnosticEvents = << "d1" >>

\* C9: when the only process spawned has run to completion and was joined,
\* the caller has received one diagnostic event per well-formed diagnostic
\* line, in the order the reader was given the lines.
C9_DiagnosticsInOrder ==
    \A p \in Pids :
        ( /\ retiredBy[p] = << "join" >>
          /\ \A q \in Pids \ {p} : procs[q] = "unspawned" )
        => DiagnosticEvents = WellFormedDiags(written[p])

\* two diagnostics written on one stream were delivered in that order
C9_Witness ==
    \E p \in Pids :
        /\ retiredBy[p] = << "join" >>
        /\ Len(written[p]) = 2
        /\ written[p][1] = [stream |-> "stdout", line |-> LineDiagRustc]
        /\ written[p][2] = [stream |-> "stdout", line |-> LineDiagCargo]
        /\ DiagnosticEvents = << "d2", "d1" >>

\* the actor handles a subprocess message or the end of the stream
CheckEventHandled ==
    \/ \E p \in Pids : Len(delivered'[p]) > Len(delivered[p])
    \/ \E p \in Pids : Joins(p)

\* C10 as stated: a subprocess event is never handled while a request is
\* in the inbox.
C10_NeverWhileRequestPending ==
    [][ CheckEventHandled => inbox = << >> ]_vars

\* C10 amended: the poll of next_event takes a queued request whatever is
\* ready on the check channel, the actor reaches select! only from a poll
\* that found the inbox empty, and subprocess events are handled only from
\* select!.
C10_RequestFirstAtPoll ==
    [][ /\ (pc = "next_event" /\ pc' # "next_event" /\ inbox # << >>)
            => (pc' = "drain" /\ inbox' = Tail(inbox))
        /\ (pc = "next_event" /\ inbox # << >> /\ events' # events)
            => inbox' = Tail(inbox)
        /\ (pc = "next_event" /\ pc' = "select") => inbox = << >>
        /\ CheckEventHandled => pc = "select" ]_vars

\* a request was taken at a poll although a subprocess event was ready
C10_Witness ==
    /\ batch.taken # << >>
    /\ batch.via = "try_recv"
    /\ batch.checkReady
    /\ batch.wasRunning

\* C11: a request in the inbox is eventually taken by the actor, whatever
\* the checker process writes; at most one subprocess event is handled
\* while a request waits, and the actor's next step after it takes the
\* request at the head of the inbox.
C11_RequestNotStarved ==
    /\ (inbox # << >>) ~> (inbox = << >>)
    /\ [][ /\ CheckEventHandled => ~batch.overtook
           /\ (batch.overtook /\ pc' # pc)
                => /\ inbox # << >>
                   /\ inbox' = Tail(inbox)
                   /\ batch'.taken = << Head(inbox) >>
                   /\ batch'.afterCheck ]_vars

\* a request that a subprocess message overtook was taken at the next poll
\* while the process still had an event ready
C11_Witness ==
    /\ batch.taken # << >>
    /\ batch.afterCheck
    /\ batch.checkReady
    /\ batch.via = "try_recv"

\* the actor thread has ended: run returned or unwound
ActorTerminated == pc \in {"done", "panicked"}

\* C12: once the handle is dropped the actor eventually terminates; run
\* returns only after the drop, a process held at that moment is cancelled
\* (killed, waited for, DidCancel) in the step that ends run, and when the
\* actor has terminated no checker process is live.
C12_DropTerminates ==
    /\ handleDropped ~> ActorTerminated
    /\ [](ActorTerminated => (LiveHandles = {} /\ cargo_handle = 0))
    /\ [](pc = "done" => handleDropped)
    /\ [][ (pc # "done" /\ pc' = "done" /\ cargo_handle # 0)
             => /\ retiredBy'[cargo_handle] = << "cancel" >>
                /\ procs'[cargo_handle] = "reaped"
                /\ events' = Append(events, Ev("DidCancel", "")) ]_vars

\* the handle was dropped while the only process spawned was running, and
\* the actor cancelled it on its way out
C12_Witness ==
    /\ pc = "done"
    /\ batch.taken = << ReqRestart >>
    /\ ~batch.wasRunning
    /\ events = << Ev("DidStart", ""), Ev("DidCancel", "") >>
    /\ retiredBy[1] = << "cancel" >>

\* the batch that began with a request of kind k has returned to the event
\* loop without meeting a Cancel
BatchCompleted(k) ==
    /\ pc \in {"next_event", "select"}
    /\ batch.taken # << >>
    /\ Head(batch.taken).kind = k
    /\ \A i \in DOMAIN batch.taken : batch.taken[i].kind # "Cancel"

\* what the arm emitted before its drain
BatchCancelEvents ==
    IF batch.wasRunning THEN << Ev("DidCancel", "") >> ELSE << >>

\* C13: a Restart whose drain met no Cancel makes one spawn attempt and
\* ends either Running with DidStart as its only report, or Idle with
\* DidFailToRestart as its only report and no DidStart; either way the
\* actor is back in its event loop.
C13_RestartOutcome ==
    BatchCompleted("Restart") =>
        /\ spawnAttempts = batch.attempts + 1
        /\ \/ /\ cargo_handle \in LiveHandles
              /\ BatchEvents = BatchCancelEvents \o << Ev("DidStart", "") >>
           \/ /\ cargo_handle = 0
              /\ LiveHandles = {}
              /\ BatchEvents = BatchCancelEvents \o
                    << Ev("DidFailToRestart", "Failed to run the following command") >>

\* a Restart failed to spawn and the Restart after it was served
C13_Witness ==
    /\ BatchCompleted("Restart")
    /\ events = << Ev("DidFailToRestart", "Failed to run the following command"),
                   Ev("DidStart", "") >>
    /\ cargo_handle # 0
    /\ spawnAttempts = 2

\* C14: a RestartVerus whose drain met no Cancel and whose command was
\* handed to spawn ends either Running, having reported VerusResult with
\* the announcement and then DidStart, or Idle, having reported VerusResult
\* with the failure text and neither DidStart nor DidFailToRestart.
C14_RestartVerusOutcome ==
    BatchCompleted("RestartVerus") =>
        /\ spawnAttempts = batch.attempts + 1
        /\ \/ /\ cargo_handle \in LiveHandles
              /\ BatchEvents = BatchCancelEvents \o
                    << Ev("VerusResult", "Started running the following Verus command"),
                       Ev("DidStart", "") >>
           \/ /\ cargo_handle = 0
              /\ LiveHandles = {}
              /\ BatchEvents = BatchCancelEvents \o
                    << Ev("VerusResult", "Failed to run the following Verus command") >>

\* a verification run replaced a running check: DidCancel, the
\* announcement, DidStart
C14_Witness ==
    /\ BatchCompleted("RestartVerus")
    /\ batch.wasRunning
    /\ cargo_handle # 0
    /\ cmd[cargo_handle].kind = "verus"
    /\ Len(BatchEvents) = 3
    /\ BatchEvents[3] = Ev("DidStart", "")

\* no ancestor directory of the file holds a manifest
NoManifest(file) ==
    \A i \in DOMAIN Ancestors(file) : ~HasManifest(Ancestors(file)[i])

\* C15: when the drain of a RestartVerus ends and no command can be
\* synthesised (no manifest in any ancestor of the file, or the
\* configuration is CargoCommand), nothing is spawned and the actor is
\* back in its event loop, Idle, ready for the next request.
C15_SynthesisFailureIsRecoverable ==
    [][ ( /\ pc = "drain"
          /\ pc' # "drain"
          /\ inbox = << >>
          /\ pending.kind = "RestartVerus"
          /\ (config = "CargoCommand" \/ NoManifest(pending.file)) )
        => /\ pc' = "next_event"
           /\ cargo_handle' = 0
           /\ spawnAttempts' = spawnAttempts ]_vars

\* C16: no send of the handle fails, and the actor thread ends only after
\* the handle was dropped.
C16_SendNeverFails ==
    /\ ~sendFailed
    /\ ActorTerminated => handleDropped

\* the last component without its extension
StripExtension(name) ==
    IF Len(name) > 1 /\ Last(name) = ".rs"
    THEN SubSeq(name, 1, Len(name) - 1)
    ELSE name

\* the module identifier of a file given relative to the source directory:
\* its components, the extension of the last one stripped, "::" between
RECURSIVE ModuleId(_)
ModuleId(rel) ==
    IF rel = << >> THEN << >>
    ELSE IF Len(rel) = 1 THEN StripExtension(rel[1])
    ELSE rel[1] \o << "::" >> \o ModuleId(Tail(rel))

\* the directory of the package of a file, with its entry file
PackageOf(file) == Ancestors(file)[WalkEnd(file)]

\* C17: when the drain of RestartVerus(F) ends, F being in a package with
\* entry file E, a command is synthesised whose arguments begin with E;
\* if F is not E they go on with --verify-module and the module
\* identifier of F relative to the source directory of the package, and if
\* F is E the flag does not occur.
C17_VerusArguments ==
    [][ ( /\ pc = "drain"
          /\ pc' # "drain"
          /\ inbox = << >>
          /\ pending.kind = "RestartVerus"
          /\ config = "CustomCommand"
          /\ WalkEnd(pending.file) # 0 )
        => LET F == pending.file
               E == EntryFile(PackageOf(F))
               args == run_verus(F).args
           IN  /\ pc' = "next_event"
               /\ Len(args) >= 1
               /\ args[1] = JoinPath(E)
               /\ F # E =>
                     /\ Len(args) >= 3
                     /\ args[2] = << "--verify-module" >>
                     /\ args[3] = ModuleId(SubSeq(F, Len(PackageOf(F)) + 2, Len(F)))
               /\ F = E =>
                     \A i \in DOMAIN args : args[i] # << "--verify-module" >> ]_vars

\* C18: when a batch of two or more restart requests (Restart or
\* RestartVerus, no Cancel) has spawned its process, the variant of the
\* command and its target file are those of the last request of the batch.
C18_FinalRequestDecides ==
    ( /\ pc \in {"next_event", "select"}
      /\ Len(batch.taken) >= 2
      /\ \A i \in DOMAIN batch.taken : batch.taken[i].kind # "Cancel"
      /\ spawnAttempts = batch.attempts + 1
      /\ cargo_handle # 0 )
    => /\ cmd[cargo_handle].kind
            = (IF Last(batch.taken).kind = "Restart" THEN "check" ELSE "verus")
       /\ cmd[cargo_handle].file = Last(batch.taken).file

\* C19 as stated: the drain is bounded by one window counted from its
\* start: it receives no request after that window has elapsed.
C19_DrainBoundedByOneWindow ==
    batch.late = 0

\* C19 amended: the drain has no deadline of its own. Each recv_timeout
\* waits its own 50 ms: while a request is queued the drain takes it,
\* however long ago the drain began, and the drain ends only on an empty
\* inbox (a full window without a request, or a disconnected channel) or
\* by taking a Cancel; the spawn follows only the former.
C19_DrainEndsOnQuietWindow ==
    [][ /\ (pc = "drain" /\ pc' # "drain")
            => \/ inbox = << >>
               \/ /\ Head(inbox) = ReqCancel
                  /\ inbox' = Tail(inbox)
                  /\ spawnAttempts' = spawnAttempts
        /\ (pc = "drain" /\ inbox # << >> /\ pc' = "drain" /\ batch' # batch)
            => /\ inbox' = Tail(inbox)
               /\ batch'.taken = Append(batch.taken, Head(inbox))
        /\ (pc = "drain" /\ spawnAttempts' # spawnAttempts)
            => inbox = << >> ]_vars

\* a restart that arrived after the first window had elapsed was still
\* coalesced, and the process was spawned after it
C19_Witness ==
    /\ pc \in {"next_event", "select"}
    /\ batch.late >= 1
    /\ Len(batch.taken) = 3
    /\ Last(batch.taken).kind # "Cancel"
    /\ spawnAttempts = batch.attempts + 1
    /\ cargo_handle # 0

\* every CargoMessage the reader sent for the lines of w, in order
RECURSIVE DecodedMessages(_)
DecodedMessages(w) ==
    IF w = << >> THEN << >>
    ELSE LineMessages(Head(w).line) \o DecodedMessages(Tail(w))

\* C20: DidFinish is reported only by the join of a process, once per
\* process, as the only report of that step and when every message the
\* reader sent for the process has been received by the actor and passed
\* on; the join leaves the actor without a handle, and a Cancel taken
\* when DidFinish was the last report adds no report.
C20_FinishedOnceAfterOutput ==
    [][ /\ \A p \in Pids :
              Joins(p) =>
                /\ retiredBy[p] = << >>
                /\ cargo_handle = p
                /\ chan[p] = << >>
                /\ delivered[p] = DecodedMessages(written[p])
                /\ events' = Append(events, Last(events'))
                /\ Last(events').type = "DidFinish"
                /\ cargo_handle' = 0
        /\ Len(SelectSeq(events', LAMBDA e : e.type = "DidFinish"))
              # Len(SelectSeq(events, LAMBDA e : e.type = "DidFinish"))
            => \E p \in Pids : Joins(p)
        /\ ( /\ events # << >>
             /\ Last(events).type = "DidFinish"
             /\ inbox # << >>
             /\ Head(inbox) = ReqCancel
             /\ inbox' = Tail(inbox) )
            => (events' = events /\ cargo_handle' = 0) ]_vars

\* a process wrote a diagnostic, ended and was joined; the Cancel taken
\* after DidFinish reported nothing
C20_Witness ==
    /\ events = << Ev("DidStart", ""), Ev("AddDiagnostic", "d1"),
                   EvFinish(OkRes) >>
    /\ retiredBy[1] = << "join" >>
    /\ batch.taken = << ReqCancel >>
    /\ ~batch.wasRunning
    /\ pc \in {"next_event", "select"}

\* whether a run is open after the reports of q, "bad" if q is not
\* well-bracketed: DidStart opens a run, DidFinish and DidCancel close the
\* open run, DidCheckCrate and AddDiagnostic need an open run
RECURSIVE RunState(_, _)
RunState(q, open) ==
    IF q = << >> THEN (IF open THEN "open" ELSE "closed")
    ELSE LET t == Head(q).type
         IN  IF t = "DidStart"
             THEN (IF open THEN "bad" ELSE RunState(Tail(q), TRUE))
             ELSE IF t \in {"DidFinish", "DidCancel"}
             THEN (IF open THEN RunState(Tail(q), FALSE) ELSE "bad")
             ELSE IF t \in {"DidCheckCrate", "AddDiagnostic"}
             THEN (IF open THEN RunState(Tail(q), open) ELSE "bad")
             ELSE RunState(Tail(q), open)

\* C21: the reports form well-bracketed runs: DidStart only when no run is
\* open, DidFinish and DidCancel only for the open run, DidCheckCrate and
\* AddDiagnostic only inside a run; a run is open exactly while the actor
\* holds a handle, so no run is left open when the actor has terminated.
C21_WellBracketedRuns ==
    /\ RunState(events, FALSE) = (IF cargo_handle # 0 THEN "open" ELSE "closed")
    /\ ActorTerminated => RunState(events, FALSE) = "closed"

\* a Restart handled while a process was running: DidCancel closes the
\* first run before DidStart opens the second
C21_Witness ==
    /\ Len(events) >= 4
    /\ events[1] = Ev("DidStart", "")
    /\ events[2] = Ev("AddDiagnostic", "d1")
    /\ events[3] = Ev("DidCancel", "")
    /\ events[4] = Ev("DidStart", "")
    /\ cargo_handle = 2

\* the reports that carry output of a checker process in the lifecycle
\* specification
OutputReports == EventsOfType({"DidCheckCrate", "AddDiagnostic"})

\* C22: a message is passed on only from the channel of the handle the
\* actor holds, which was never retired; cancelling a process discards
\* what is queued on its channel, and a retired process is never held
\* again and its channel stays empty; reports of output appear only in
\* such a step.
C22_NoOutputAfterCancel ==
    [][ /\ \A p \in Pids :
              Len(delivered'[p]) > Len(delivered[p]) =>
                /\ cargo_handle = p
                /\ retiredBy[p] = << >>
                /\ chan[p] # << >>
                /\ events' = Append(events, MessageEvent(Head(chan[p])))
        /\ OutputReports' # OutputReports
            => \E p \in Pids : Len(delivered'[p]) > Len(delivered[p])
        /\ \A p \in Pids :
              (retiredBy[p] = << >> /\ retiredBy'[p] = << "cancel" >>) =>
                (chan'[p] = << >> /\ cargo_handle = p /\ cargo_handle' # p)
        /\ \A p \in Pids :
              retiredBy[p] # << >> =>
                (chan'[p] = << >> /\ cargo_handle' # p /\ retiredBy'[p] = retiredBy[p])
      ]_vars

\* a process was cancelled by a Restart while a diagnostic was queued on
\* its channel; the diagnostic was never reported and the next process
\* has started
C22_Witness ==
    /\ batch.dropped >= 1
    /\ batch.wasRunning
    /\ OutputReports = << >>
    /\ events = << Ev("DidStart", ""), Ev("DidCancel", ""), Ev("DidStart", "") >>
    /\ cargo_handle = 2

\* C23: a Cancel is the last request of the batch that takes it: the drain
\* step that receives it consumes nothing else, makes no spawn and returns
\* to the event loop, and the request behind it is taken as a new event.
\* So <<Restart, Cancel>> followed by <<Restart>> makes one spawn call in
\* all, and <<Restart, Cancel>> makes none.
C23_DrainStopsAtCancel ==
    /\ [](\A i \in DOMAIN batch.taken :
              batch.taken[i].kind = "Cancel" => i = Len(batch.taken))
    /\ []( ( /\ BatchDone
             /\ batch.taken = << ReqRestart, ReqCancel >> )
           => spawnAttempts = batch.attempts )
    /\ []( ( /\ BatchDone
             /\ batch.prev = << ReqRestart, ReqCancel >>
             /\ batch.taken = << ReqRestart >> )
           => spawnAttempts = batch.prevAttempts + 1 )
    /\ [][ /\ ( /\ pc = "drain"
                /\ batch'.taken = Append(batch.taken, ReqCancel) )
              => /\ inbox' = Tail(inbox)
                 /\ pc' = "next_event"
                 /\ spawnAttempts' = spawnAttempts
           /\ ( /\ pc = "next_event"
                /\ batch.taken # << >>
                /\ Last(batch.taken) = ReqCancel
                /\ inbox # << >>
                /\ pc' # pc )
              => /\ inbox' = Tail(inbox)
                 /\ batch'.taken = << Head(inbox) >>
                 /\ batch'.prev = batch.taken ]_vars

\* the Restart queued behind Restart, Cancel was handled on its own and
\* its process is the only one spawned
C23_Witness ==
    /\ BatchDone
    /\ batch.prev = << ReqRestart, ReqCancel >>
    /\ batch.taken = << ReqRestart >>
    /\ batch.via = "try_recv"
    /\ spawnAttempts = 1
    /\ cargo_handle = 1
    /\ events = << Ev("DidStart", "") >>

\* C24: once the handle has been dropped the actor makes no spawn call: a
\* drain that ends because the channel is disconnected does not spawn.
C24_NoSpawnAfterDrop ==
    [][ spawnAttempts' # spawnAttempts => ~handleDropped ]_vars

\* C25: the join of a process whose reader ended with a read error
\* reports DidFinish with that error, whatever was decoded and whatever
\* the exit status; the rule "a decoded message or exit status 0" decides
\* only for a reader that read both streams to their end.
C25_ReadErrorFailsJoin ==
    [][ \A p \in Pids :
          Joins(p) =>
            LET res == Last(events').res
            IN  /\ Last(events').type = "DidFinish"
                /\ reader[p].output = "err"
                      => (~res.ok /\ res.why = "io")
                /\ reader[p].output = "ok"
                      => (res.ok <=> (NumDecoded(written[p]) >= 1 \/ exit[p] = 0))
      ]_vars

\* a process that wrote a diagnostic and exited with status 0 was joined
\* after a read error and reported as failed
C25_Witness ==
    \E p \in Pids :
        /\ retiredBy[p] = << "join" >>
        /\ reader[p].output = "err"
        /\ exit[p] = 0
        /\ NumDecoded(written[p]) >= 1
        /\ DiagnosticEvents # << >>
        /\ Last(events).type = "DidFinish"
        /\ ~Last(events).res.ok

\* target names of the artifact lines of w that are not fresh, in order
NonFreshArtifacts(w) ==
    LET d == SelectSeq(w, LAMBDA x : x.line.shape = "CompilerArtifact" /\ ~x.line.fresh)
    IN  [i \in DOMAIN d |-> d[i].line.payload]

\* target names of the CompilerArtifact messages of q, in order
ArtifactPayloads(q) ==
    LET d == SelectSeq(q, LAMBDA m : m.type = "CompilerArtifact")
    IN  [i \in DOMAIN d |-> d[i].payload]

\* target names of the DidCheckCrate reports, in order
CrateCheckedEvents ==
    LET d == EventsOfType({"DidCheckCrate"})
    IN  [i \in DOMAIN d |-> d[i].arg]

\* C26: the CompilerArtifact messages received and in flight are exactly
\* the artifact lines read that are not fresh, with their target names,
\* and the DidCheckCrate reports are exactly those received: a fresh
\* artifact is never reported.
C26_OnlyNonFreshArtifacts ==
    \A p \in Pids :
        (p \in LiveHandles \/ retiredBy[p] = << "join" >>) =>
            /\ ArtifactPayloads(delivered[p] \o chan[p]) = NonFreshArtifacts(written[p])
            /\ (\A q \in Pids \ {p} : procs[q] = "unspawned")
                  => CrateCheckedEvents = ArtifactPayloads(delivered[p])

\* a fresh artifact and then one that is not fresh were read; only the
\* second was reported
C26_Witness ==
    \E p \in Pids :
        /\ retiredBy[p] = << "join" >>
        /\ Len(written[p]) = 2
        /\ written[p][1].line = LineFreshArtifact
        /\ written[p][2].line = LineArtifact
        /\ CrateCheckedEvents = << "crate_a" >>

\* the lines of w all decode and none of them is forwarded
OnlySilentLines(w) ==
    /\ w # << >>
    /\ \A i \in DOMAIN w :
          Deserializes(w[i].line) /\ LineMessages(w[i].line) = << >>

\* C27: a process that wrote only lines that decode without producing a
\* message (fresh artifacts, skipped build messages) and whose reader
\* finished without error is reported as DidFinish(success) when joined,
\* whatever its exit status, no message of it was received or is in
\* flight, and no DidCheckCrate or AddDiagnostic event was emitted.
C27_SilentLinesCountAsDecoded ==
    [][ \A p \in Pids :
          (Joins(p) /\ reader[p].output = "ok" /\ OnlySilentLines(written[p])) =>
            /\ Last(events').type = "DidFinish"
            /\ Last(events').res.ok
            /\ delivered[p] \o chan[p] = << >>
            /\ (\A q \in Pids \ {p} : procs[q] = "unspawned") =>
                  EventsOfType({"DidCheckCrate", "AddDiagnostic"}) = << >> ]_vars

\* a process wrote a fresh artifact and a build-finished line, exited with
\* a nonzero status and was reported as successful
C27_Witness ==
    \E p \in Pids :
        /\ retiredBy[p] = << "join" >>
        /\ reader[p].output = "ok"
        /\ exit[p] # 0
        /\ Len(written[p]) = 2
        /\ written[p][1].line = LineFreshArtifact
        /\ written[p][2].line = LineBuildFinished
        /\ Last(events).type = "DidFinish"
        /\ Last(events).res.ok
        /\ EventsOfType({"DidCheckCrate", "AddDiagnostic"}) = << >>

\* text of the lines of w that do not decode and hold the verification
\* marker, in order
MarkerLines(w) ==
    LET d == SelectSeq(w, LAMBDA x : ~Deserializes(x.line) /\ x.line.marker)
    IN  [i \in DOMAIN d |-> d[i].line.payload]

\* text of the VerusResult messages of q, in order
VerusPayloads(q) ==
    LET d == SelectSeq(q, LAMBDA m : m.type = "VerusResult")
    IN  [i \in DOMAIN d |-> d[i].payload]

\* the lines of w all fail to decode and hold the verification marker
OnlyMarkerLines(w) ==
    /\ w # << >>
    /\ \A i \in DOMAIN w : ~Deserializes(w[i].line) /\ w[i].line.marker

\* C28: a line that does not decode and holds the verification marker is
\* sent as a VerusResult message carrying the line unchanged and is also
\* appended to the error accumulator of its stream; it is not counted as
\* decoded: a process that wrote only such lines and exited with a nonzero
\* status is reported, when joined without a read error, as a failed
\* DidFinish whose text holds those lines, after one VerusResult event
\* per line.
C28_MarkerLineIsRawText ==
    [][ \A p \in Pids :
          /\ (p \in LiveHandles) =>
                /\ VerusPayloads(delivered[p] \o chan[p]) = MarkerLines(written[p])
                /\ reader[p].stdout_errors = RawText(written[p], "stdout")
                /\ reader[p].stderr_errors = RawText(written[p], "stderr")
          /\ ( /\ Joins(p)
               /\ reader[p].output = "ok"
               /\ exit[p] # 0
               /\ OnlyMarkerLines(written[p]) ) =>
                /\ ~read_at_least_one_message(reader[p])
                /\ Last(events').type = "DidFinish"
                /\ ~Last(events').res.ok
                /\ Last(events').res.text
                      = RawText(written[p], "stdout") \o RawText(written[p], "stderr")
                /\ \A i \in DOMAIN written[p] :
                      /\ \E j \in DOMAIN Last(events').res.text :
                            Last(events').res.text[j] = written[p][i].line.payload
                      /\ \E j \in DOMAIN events :
                            events[j] = Ev("VerusResult", written[p][i].line.payload) ]_vars

\* a process wrote two verification result lines, one on each stream,
\* exited with a nonzero status and was reported as failed with both
\* lines in the text
C28_Witness ==
    \E p \in Pids :
        /\ retiredBy[p] = << "join" >>
        /\ reader[p].output = "ok"
        /\ exit[p] # 0
        /\ Len(written[p]) = 2
        /\ written[p][1] = [stream |-> "stderr", line |-> LineVerusResult]
        /\ written[p][2] = [stream |-> "stdout", line |-> LineVerusResult]
        /\ Last(events).type = "DidFinish"
        /\ ~Last(events).res.ok
        /\ Last(events).res.text = << LineVerusResult.payload, LineVerusResult.payload >>
        /\ Len(SelectSeq(events,
                 LAMBDA e : e = Ev("VerusResult", LineVerusResult.payload))) = 2

\* the arguments of a verification command between the configured
\* arguments and the trailer
ExtraArgsIn(c) ==
    LET n == (IF c.args[1] = JoinPath(c.file) THEN 1 ELSE 3) + Len(CustomArgs)
    IN  SubSeq(c.args, n + 1, Len(c.args) - 2)

\* C29: a verification command built for a file takes its entry file and
\* its extra arguments from the same package directory: the entry file is
\* src/main.rs of the directory if that exists and src/lib.rs otherwise,
\* and the extra arguments are those of the manifest of that directory,
\* never those of a manifest in a directory without entry file.
C29_ExtraArgsFromEntryPackage ==
    \A p \in Pids :
        (cmd[p].kind = "verus" /\ cmd[p].args # << >>) =>
            \E dir \in { Ancestors(cmd[p].file)[i] : i \in DOMAIN Ancestors(cmd[p].file) } :
                /\ PathExists(dir \o CargoToml)
                /\ cmd[p].args[1]
                     = JoinPath(IF PathExists(dir \o SrcMainRs)
                                THEN dir \o SrcMainRs ELSE dir \o SrcLibRs)
                /\ PathExists(dir \o SrcMainRs) \/ PathExists(dir \o SrcLibRs)
                /\ ExtraArgsIn(cmd[p]) = TomlExtraArgs(dir)

\* C30: no send of an Output Reader fails: whenever a ProcessHandle is
\* retired, by cancel, by join or at the end of the actor's loop, the
\* reader has returned before the Receiver of its channel is released.
C30_ReaderSendNeverFails ==
    /\ [](\A p \in Pids : ~reader[p].send_failed)
    /\ [][ \A p \in Pids :
             /\ Joins(p) =>
                   /\ reader[p].output # "reading"
                   /\ reader[p].unread = << >>
             /\ retiredBy'[p] = Append(retiredBy[p], "cancel") =>
                   /\ JoinHandleDrop(reader[p]).output # "reading"
                   /\ UnsentMessages(JoinHandleDrop(reader[p])) = << >>
                   /\ reader'[p] = ReaderInit ]_vars

\* a process was cancelled while its reader had a diagnostic left to
\* read and send, and no send failed
C30_Witness ==
    /\ batch.wasRunning
    /\ batch.unsent > 0
    /\ Len(events) >= batch.first
    /\ events[batch.first].type = "DidCancel"
    /\ \A p \in Pids : ~reader[p].send_failed

====
